---- MODULE Spec2Model ----
(***************************************************************************)
(* Model of the wollok-ts linker (src/src/linker.ts): package merging,     *)
(* scope construction, name resolution and reference validation.           *)
(*                                                                         *)
(* Nodes are records.  A filled (not yet linked) node carries id = 0; a    *)
(* linked node carries the id it received from uuid().  Qualified names    *)
(* are sequences of segments: "wollok.lang" is <<"wollok", "lang">>.       *)
(***************************************************************************)
EXTENDS Integers, Sequences, FiniteSets, TLC

VARIABLES
    members,      \* SpecMerge: the member list being folded with mergePackage
    previous,     \* SpecMerge: the member list before the last mergePackage call
    isolated,     \* SpecMerge: the entity given to the last mergePackage call
    merges,       \* SpecMerge: number of mergePackage calls made
    env,          \* the environment returned by the last successful link, or NoEnv
    attempt,      \* the environment as the last link call left it (returned or thrown away)
    outcome,      \* "none" | "ok" | "error": how the last link call ended
    baseOf,       \* the base environment given to the last link call, or NoEnv
    nextId,       \* the uuid generator: the next id it hands out
    links         \* number of link calls made

vars == <<members, previous, isolated, merges, env, attempt, outcome, baseOf, nextId, links>>

mergeVars == <<members, previous, isolated, merges>>
linkVars == <<env, attempt, outcome, baseOf, nextId, links>>

----------------------------------------------------------------------------
(* Bounds *)

MaxMerges == 3      \* mergePackage calls in one behaviour of SpecMerge
MaxDepth == 2       \* nesting depth of the packages given to mergePackage
MaxImports == 2     \* imports declared by one package
MaxLinks == 2       \* link calls in one behaviour of Spec
MaxSegments == 3    \* segments of the qualified names looked up

----------------------------------------------------------------------------
(* Node builders (src/src/builders.ts) *)

Reference(name) == [kind |-> "Reference", name |-> name, id |-> 0]

Import(reference, isGeneric) ==
    [kind |-> "Import", entity |-> reference, isGeneric |-> isGeneric, id |-> 0]

Field(name) == [kind |-> "Field", name |-> name, id |-> 0]

\* A field with an initial value, here a reference.
FieldWithValue(name, value) == [kind |-> "Field", name |-> name, value |-> value, id |-> 0]

Package(name, imports, mems) ==
    [kind |-> "Package", name |-> name, imports |-> imports, members |-> mems, id |-> 0]

Class(name, supers, mems) ==
    [kind |-> "Class", name |-> name, supers |-> supers, members |-> mems, id |-> 0]

Mixin(name, supers, mems) ==
    [kind |-> "Mixin", name |-> name, supers |-> supers, members |-> mems, id |-> 0]

NoEntity == [kind |-> "None"]

----------------------------------------------------------------------------
(* MERGING (linker.ts 14-27) *)

\* members.filter(pred), by position; keeps the order of the kept elements.
RECURSIVE KeepFrom(_, _, _)
KeepFrom(s, i, keep) ==
    IF i > Len(s) THEN <<>>
    ELSE (IF i \in keep THEN <<s[i]>> ELSE <<>>) \o KeepFrom(s, i + 1, keep)

\* members.filter(({ name }) => name !== n)
WithoutName(mems, n) == KeepFrom(mems, 1, {i \in 1..Len(mems) : mems[i].name # n})

\* members.filter(member => member !== existent), existent being the member at position e
WithoutMember(mems, e) == KeepFrom(mems, 1, (1..Len(mems)) \ {e})

\* members.find(member => member.is('Package') && member.name === name): the
\* position of the first match, 0 for undefined.
FindPackage(mems, name) ==
    LET hits == {i \in 1..Len(mems) : mems[i].kind = "Package" /\ mems[i].name = name}
    IN IF hits = {} THEN 0 ELSE CHOOSE i \in hits : \A j \in hits : i <= j

RECURSIVE mergePackage(_, _)
RECURSIVE ReduceMerge(_, _)

\* isolated.members.reduce(mergePackage, existent.members)
ReduceMerge(news, acc) ==
    IF news = <<>> THEN acc
    ELSE ReduceMerge(Tail(news), mergePackage(acc, Head(news)))

\* Faulty variant: the merged package takes the place of the existing one.
mergePackage_InPlace(mems, iso) ==
    IF iso.kind # "Package"
    THEN WithoutName(mems, iso.name) \o <<iso>>
    ELSE LET existent == FindPackage(mems, iso.name)
         IN IF existent # 0
            THEN [mems EXCEPT ![existent] =
                    [mems[existent] EXCEPT !.members = ReduceMerge(iso.members, @)]]
            ELSE mems \o <<iso>>

\* Faulty variant: an existing package is replaced by the new one, not merged with it.
mergePackage_NoRecursion(mems, iso) ==
    IF iso.kind # "Package"
    THEN WithoutName(mems, iso.name) \o <<iso>>
    ELSE LET existent == FindPackage(mems, iso.name)
         IN IF existent # 0
            THEN WithoutMember(mems, existent) \o <<iso>>
            ELSE mems \o <<iso>>

mergePackage(mems, iso) ==
    IF iso.kind # "Package"
    THEN WithoutName(mems, iso.name) \o <<iso>>
    ELSE LET existent == FindPackage(mems, iso.name)
         IN IF existent # 0
            THEN WithoutMember(mems, existent)
                 \o << [mems[existent] EXCEPT !.members = ReduceMerge(iso.members, @)] >>
            ELSE mems \o <<iso>>

----------------------------------------------------------------------------
(* The entities handed to mergePackage *)

MergeNames == {"x", "y"}

\* Non-package entities; two classes of one name differ in their fields.
Leaves ==
    {Class(n, <<>>, <<>>) : n \in MergeNames} \cup {Class("x", <<>>, <<Field("f")>>)}

\* Packages nested up to depth d, each with at most one member; a nested package
\* is named "x", so that nested packages collide with each other and with the
\* classes named "x".
RECURSIVE PackagesUpTo(_)
PackagesUpTo(d) ==
    IF d = 0 THEN {}
    ELSE LET inner == Leaves \cup {q \in PackagesUpTo(d - 1) : q.name = "x"}
         IN {Package(n, <<>>, <<>>) : n \in MergeNames}
            \cup {Package(n, <<>>, <<e>>) : n \in MergeNames, e \in inner}

Entities == Leaves \cup PackagesUpTo(MaxDepth)

----------------------------------------------------------------------------
(* The tree of an environment, laid out as the traversal sees it *)

NoEnv == [kind |-> "None"]

EntityKinds == {"Package", "Class", "Mixin", "Singleton", "Program", "Test", "Describe"}
ModuleKinds == {"Class", "Mixin", "Singleton"}

\* The child nodes of a node, in the order forEach and transform visit them.
Children(n) ==
    CASE n.kind = "Environment" -> n.members
      [] n.kind = "Package" -> n.imports \o n.members
      [] n.kind \in {"Class", "Mixin"} -> n.supers \o n.members
      [] n.kind = "Import" -> <<n.entity>>
      [] n.kind = "Field" /\ "value" \in DOMAIN n -> <<n.value>>
      [] OTHER -> <<>>

RECURSIVE SizeOf(_)
RECURSIVE SizeAll(_)
SizeOf(n) == 1 + SizeAll(Children(n))
SizeAll(kids) == IF kids = <<>> THEN 0 ELSE SizeOf(Head(kids)) + SizeAll(Tail(kids))

\* Faulty variant: the copy keeps the id the node had.
copy_KeepId(n, id) == n

\* node.copy({ id: uuid() }) (linker.ts 137)
copy(n, id) == [n EXCEPT !.id = id]

RECURSIVE transform(_, _)
RECURSIVE transformAll(_, _)

\* environment.transform(node => node.copy({ id: uuid() })): the tree rebuilt, the
\* node that uuid() is called for at step k of the traversal getting the id first + k.
transform(n, first) ==
    LET c == copy(n, first)
    IN CASE n.kind = "Environment" ->
              [c EXCEPT !.members = transformAll(n.members, first + 1)]
         [] n.kind = "Package" ->
              [c EXCEPT !.imports = transformAll(n.imports, first + 1),
                        !.members = transformAll(n.members, first + 1 + SizeAll(n.imports))]
         [] n.kind \in {"Class", "Mixin"} ->
              [c EXCEPT !.supers = transformAll(n.supers, first + 1),
                        !.members = transformAll(n.members, first + 1 + SizeAll(n.supers))]
         [] n.kind = "Import" ->
              [c EXCEPT !.entity = transform(n.entity, first + 1)]
         [] n.kind = "Field" /\ "value" \in DOMAIN n ->
              [c EXCEPT !.value = transform(n.value, first + 1)]
         [] OTHER -> c

transformAll(kids, first) ==
    IF kids = <<>> THEN <<>>
    ELSE <<transform(Head(kids), first)>>
         \o transformAll(Tail(kids), first + SizeOf(Head(kids)))

\* A node as the linker reads it once the tree is laid out: its parent is the
\* position of its parent node (0 for the environment), the value that
\* node._cache().set('parent()', parent) records (linker.ts 140).
FlatNode(n, parent) ==
    [kind |-> n.kind,
     name |-> IF n.kind \in EntityKinds \cup {"Field"} THEN n.name ELSE "",
     ref |-> IF n.kind = "Reference" THEN n.name ELSE <<>>,
     isGeneric |-> IF n.kind = "Import" THEN n.isGeneric ELSE FALSE,
     id |-> n.id,
     parent |-> parent]

RECURSIVE Flatten(_, _, _)
RECURSIVE FlattenAll(_, _, _)
\* environment.forEach((node, parent) => ...): the nodes in visiting order, a
\* node before its children; self is the position the node takes.
Flatten(n, parent, self) ==
    <<FlatNode(n, parent)>> \o FlattenAll(Children(n), self, self + 1)
FlattenAll(kids, parent, next) ==
    IF kids = <<>> THEN <<>>
    ELSE Flatten(Head(kids), parent, next)
         \o FlattenAll(Tail(kids), parent, next + SizeOf(Head(kids)))

ChildrenOf(nodes, p) == {i \in 1..Len(nodes) : nodes[i].parent = p}

\* node.members of a package or module: its children that are not imports or
\* supertype references.
MembersOf(nodes, p) == {i \in ChildrenOf(nodes, p) : nodes[i].kind \notin {"Import", "Reference"}}

\* The elements of a set of positions, in ascending order.
RECURSIVE Ascending(_)
Ascending(set) ==
    IF set = {} THEN <<>>
    ELSE LET m == CHOOSE x \in set : \A y \in set : x <= y
         IN <<m>> \o Ascending(set \ {m})

----------------------------------------------------------------------------
(* SCOPES (linker.ts 33-65) *)

\* The name segments that occur in the environments linked.
Segments == {"wollok", "lang", "lib", "p", "q", "a", "b", "c"}

\* The segments the qualified names looked up are made of.
QualifiedSegments == {"wollok", "lang", "a"}

\* The result of a lookup that throws.
Thrown == -1

\* new LocalScope(containerScope): no contributions, no included scopes.  A scope
\* is named by its position in the scope table; the scope of node i is scope i.
LocalScope(containerScope) ==
    [contributions |-> [n \in Segments |-> 0],
     includedScopes |-> <<>>,
     containerScope |-> containerScope]

RECURSIVE register(_, _)
\* LocalScope.register: Map.set for each contribution in turn (linker.ts 39-42)
register(scope, contributions) ==
    IF contributions = <<>> THEN scope
    ELSE register([scope EXCEPT !.contributions[Head(contributions)[1]] = Head(contributions)[2]],
                  Tail(contributions))

RECURSIVE resolve(_, _, _, _)

\* for(const includedScope of this.includedScopes): the first hit, 0 for none.
RECURSIVE ResolveIncluded(_, _, _)
ResolveIncluded(scopes, included, name) ==
    IF included = <<>> THEN 0
    ELSE LET inherited == resolve(scopes, Head(included), name, FALSE)
         IN IF inherited # 0 THEN inherited
            ELSE ResolveIncluded(scopes, Tail(included), name)

\* Faulty variant: the included scopes are consulted before the scope's own contributions.
resolve_IncludedFirst(scopes, s, name, allowLookup) ==
    LET contributed == scopes[s].contributions[name]
    IN IF ~allowLookup THEN contributed
       ELSE LET inherited == ResolveIncluded(scopes, scopes[s].includedScopes, name)
            IN IF inherited # 0 THEN inherited
               ELSE IF contributed # 0 THEN contributed
               ELSE IF scopes[s].containerScope = 0 THEN 0
               ELSE resolve(scopes, scopes[s].containerScope, name, allowLookup)

\* Faulty variant: an included scope that does not bind the name hands the lookup on to
\* its own container.
resolve_IncludedEscalates(scopes, s, name, allowLookup) ==
    LET contributed == scopes[s].contributions[name]
    IN IF contributed # 0 THEN contributed
       ELSE IF ~allowLookup
            THEN IF scopes[s].containerScope = 0 THEN 0
                 ELSE resolve(scopes, scopes[s].containerScope, name, FALSE)
       ELSE LET inherited == ResolveIncluded(scopes, scopes[s].includedScopes, name)
            IN IF inherited # 0 THEN inherited
               ELSE IF scopes[s].containerScope = 0 THEN 0
               ELSE resolve(scopes, scopes[s].containerScope, name, allowLookup)

\* LocalScope.resolve (linker.ts 44-54); 0 stands for undefined.
resolve(scopes, s, name, allowLookup) ==
    LET contributed == scopes[s].contributions[name]
    IN IF contributed # 0 \/ ~allowLookup THEN contributed
       ELSE LET inherited == ResolveIncluded(scopes, scopes[s].includedScopes, name)
            IN IF inherited # 0 THEN inherited
               ELSE IF scopes[s].containerScope = 0 THEN 0
               ELSE resolve(scopes, scopes[s].containerScope, name, allowLookup)

\* divideOn('.')(qualifiedName): the first segment and the rest.
divideOn(qualifiedName) == <<Head(qualifiedName), Tail(qualifiedName)>>

RECURSIVE resolveQualified(_, _, _, _)

\* Faulty variant: the later segments are looked up like the first one.
resolveQualified_Lookup(scopes, s, qualifiedName, allowLookup) ==
    LET start == divideOn(qualifiedName)[1]
        rest == divideOn(qualifiedName)[2]
        root == resolve(scopes, s, start, allowLookup)
    IN IF root = 0 THEN Thrown
       ELSE IF Len(rest) # 0 THEN resolveQualified(scopes, root, rest, TRUE)
       ELSE root

\* LocalScope.resolveQualified (linker.ts 57-64); root.scope is the scope of the
\* node resolved, Thrown stands for the Error thrown.
resolveQualified(scopes, s, qualifiedName, allowLookup) ==
    LET start == divideOn(qualifiedName)[1]
        rest == divideOn(qualifiedName)[2]
        root == resolve(scopes, s, start, allowLookup)
    IN IF root = 0 THEN Thrown
       ELSE IF Len(rest) # 0 THEN resolveQualified(scopes, root, rest, FALSE)
       ELSE root

\* scopeContribution (linker.ts 68-76)
scopeContribution(nodes, i) ==
    IF nodes[i].kind \in EntityKinds \cup {"Field", "Parameter"}
    THEN IF nodes[i].name # "" THEN << <<nodes[i].name, i>> >> ELSE <<>>
    ELSE <<>>

RECURSIVE FlatMap(_, _)
\* list.flatMap(scopeContribution)
FlatMap(nodes, list) ==
    IF list = <<>> THEN <<>>
    ELSE scopeContribution(nodes, Head(list)) \o FlatMap(nodes, Tail(list))

----------------------------------------------------------------------------
(* Supertypes: Reference.target() and Module.hierarchy() *)

\* reference.target(): the reference's name resolved from the reference's own scope.
target(nodes, scopes, r) == resolveQualified(scopes, r, nodes[r].ref, TRUE)

\* The supertype and mixin references of a module, in declaration order.
SuperReferences(nodes, m) ==
    Ascending({i \in ChildrenOf(nodes, m) : nodes[i].kind = "Reference"})

RECURSIVE Targets(_, _, _)
Targets(nodes, scopes, refs) ==
    IF refs = <<>> THEN <<>>
    ELSE <<target(nodes, scopes, Head(refs))>> \o Targets(nodes, scopes, Tail(refs))

InSeq(x, seq) == \E k \in 1..Len(seq) : seq[k] = x

RECURSIVE HierarchyFrom(_, _, _, _)
\* The modules reached through the supertype references, each once, a module
\* before its supertypes; <<Thrown>> when a supertype does not resolve to a module.
HierarchyFrom(nodes, scopes, todo, acc) ==
    IF todo = <<>> THEN acc
    ELSE LET h == Head(todo)
         IN IF h = Thrown THEN <<Thrown>>
            ELSE IF nodes[h].kind \notin ModuleKinds THEN <<Thrown>>
            ELSE IF InSeq(h, acc) THEN HierarchyFrom(nodes, scopes, Tail(todo), acc)
            ELSE HierarchyFrom(nodes, scopes,
                     Targets(nodes, scopes, SuperReferences(nodes, h)) \o Tail(todo),
                     acc \o <<h>>)

\* module.hierarchy(): the module itself, then its ancestors, most specific first.
hierarchy(nodes, scopes, m) == HierarchyFrom(nodes, scopes, <<m>>, <<>>)

----------------------------------------------------------------------------
(* assignScopes (linker.ts 79-121) *)

GLOBAL_PACKAGES == << <<"wollok", "lang">>, <<"wollok", "lib">> >>

\* The container of the scope of node i (linker.ts 81-85): the scope of its parent,
\* or of its grandparent for a Reference whose parent is a Class or a Mixin.
containerOf(nodes, i) ==
    IF nodes[i].kind = "Reference" /\ nodes[nodes[i].parent].kind \in {"Class", "Mixin"}
    THEN nodes[nodes[i].parent].parent
    ELSE nodes[i].parent

RECURSIVE FirstPass(_, _, _)
\* The first forEach (linker.ts 80-89): node i gets scope i, and an entity is
\* registered in the scope of its parent.
FirstPass(nodes, i, scopes) ==
    IF i > Len(nodes) THEN scopes
    ELSE LET made == Append(scopes, LocalScope(containerOf(nodes, i)))
             p == nodes[i].parent
         IN FirstPass(nodes, i + 1,
                IF nodes[i].kind \in EntityKinds
                THEN [made EXCEPT ![p] = register(@, scopeContribution(nodes, i))]
                ELSE made)

RECURSIVE ResolveEach(_, _, _)
\* imports.map(imported => imported.scope.resolveQualified(imported.entity.name))
ResolveEach(nodes, scopes, imports) ==
    IF imports = <<>> THEN <<>>
    ELSE LET imported == Head(imports)
             entity == CHOOSE r \in ChildrenOf(nodes, imported) : TRUE
         IN <<resolveQualified(scopes, imported, nodes[entity].ref, TRUE)>>
            \o ResolveEach(nodes, scopes, Tail(imports))

\* What the second forEach carries from node to node: the scope table, and
\* whether an Error was thrown.
Carried(scopes, thrown) == [scopes |-> scopes, thrown |-> thrown]

\* if(node.is('Environment')) ... (linker.ts 92-95)
RegisterGlobals(nodes, st, i) ==
    IF st.thrown \/ nodes[i].kind # "Environment" THEN st
    ELSE LET globals == [k \in 1..Len(GLOBAL_PACKAGES) |->
                            resolveQualified(st.scopes, 1, GLOBAL_PACKAGES[k], TRUE)]
             lang == Ascending(MembersOf(nodes, globals[1]))
             lib == Ascending(MembersOf(nodes, globals[2]))
         IN IF InSeq(Thrown, globals) THEN Carried(st.scopes, TRUE)
            ELSE Carried([st.scopes EXCEPT ![i] =
                             register(@, FlatMap(nodes, lang) \o FlatMap(nodes, lib))],
                         FALSE)

RECURSIVE NamedEach(_, _)
\* simpleImports.map(... => [entity.name!, entity])
NamedEach(nodes, entities) ==
    IF entities = <<>> THEN <<>>
    ELSE << <<nodes[Head(entities)].name, Head(entities)>> >> \o NamedEach(nodes, Tail(entities))

\* Faulty variant: the import scope is added after the scopes of the generic imports.
IncludedOfImports_GenericFirst(importScope, generics, included) ==
    generics \o <<importScope>> \o included

\* packageScope.includedScopes.unshift(importScope, ...generics) (linker.ts 108)
IncludedOfImports(importScope, generics, included) ==
    <<importScope>> \o generics \o included

\* if(node.is('Package') && node.imports.length) ... (linker.ts 97-111)
IncludeImports(nodes, st, i) ==
    LET imports == {k \in ChildrenOf(nodes, i) : nodes[k].kind = "Import"}
    IN IF st.thrown \/ nodes[i].kind # "Package" \/ imports = {} THEN st
       ELSE LET genericImports == Ascending({k \in imports : nodes[k].isGeneric})
                simpleImports == Ascending({k \in imports : ~nodes[k].isGeneric})
                entities == ResolveEach(nodes, st.scopes, simpleImports)
                generics == ResolveEach(nodes, st.scopes, genericImports)
                importScope == Len(st.scopes) + 1
            IN IF InSeq(Thrown, entities) \/ InSeq(Thrown, generics)
               THEN Carried(st.scopes, TRUE)
               ELSE LET withImportScope ==
                            Append(st.scopes, register(LocalScope(0), NamedEach(nodes, entities)))
                    IN Carried([withImportScope EXCEPT ![i].includedScopes =
                                   IncludedOfImports(importScope, generics, @)],
                               FALSE)

\* includedScopes.push(...node.hierarchy().slice(1).map(supertype => supertype.scope))
\* (linker.ts 114-116)
IncludedOfHierarchy(h, included) == included \o Tail(h)

\* if(node.is('Module')) ... (linker.ts 113-117)
IncludeHierarchy(nodes, st, i) ==
    IF st.thrown \/ nodes[i].kind \notin ModuleKinds THEN st
    ELSE LET h == hierarchy(nodes, st.scopes, i)
         IN IF h = <<Thrown>> THEN Carried(st.scopes, TRUE)
            ELSE Carried([st.scopes EXCEPT ![i].includedScopes = IncludedOfHierarchy(h, @)],
                         FALSE)

\* if(parent && !node.is('Entity')) ... (linker.ts 119)
RegisterMember(nodes, st, i) ==
    IF ~st.thrown /\ nodes[i].parent # 0 /\ nodes[i].kind \notin EntityKinds
    THEN Carried([st.scopes EXCEPT ![nodes[i].parent] = register(@, scopeContribution(nodes, i))],
                 FALSE)
    ELSE st

RECURSIVE SecondPass(_, _, _)
\* The second forEach (linker.ts 91-120): the four steps of its body on node i, in
\* order, each one skipped once an Error was thrown; it ends at the first Error.
SecondPass(nodes, i, st) ==
    IF i > Len(nodes) \/ st.thrown THEN st
    ELSE SecondPass(nodes, i + 1,
             RegisterMember(nodes,
                 IncludeHierarchy(nodes,
                     IncludeImports(nodes, RegisterGlobals(nodes, st, i), i), i), i))

assignScopes(nodes) == SecondPass(nodes, 1, Carried(FirstPass(nodes, 1, <<>>), FALSE))

----------------------------------------------------------------------------
(* LINKER (linker.ts 128-154) *)

References(nodes) == {i \in 1..Len(nodes) : nodes[i].kind = "Reference"}

\* if(node.is('Reference') && !node.target()) throw ... (linker.ts 148-151)
Unlinked(nodes, scopes) ==
    {r \in References(nodes) : target(nodes, scopes, r) \in {0, Thrown}}

\* Faulty variant: the references are not checked.
Validate_Nothing(nodes, scopes) == FALSE

\* The last forEach of link: whether it throws.
Validate(nodes, scopes) == Unlinked(nodes, scopes) # {}

\* environment._cache().set(`getNodeById(${node.id})`, node) (linker.ts 142): the
\* node each id leads to, the last one set staying.
getNodeById(nodes) ==
    [d \in {nodes[i].id : i \in 1..Len(nodes)} |->
        CHOOSE i \in 1..Len(nodes) :
            /\ nodes[i].id = d
            /\ \A j \in 1..Len(nodes) : nodes[j].id = d => j <= i]

\* The end of link (linker.ts 145-153), scoped being what assignScopes left: how the
\* call ended, the environment as it left it, and the next id uuid() hands out.
Validated(tree, nodes, scoped) ==
    [outcome |-> IF scoped.thrown \/ Validate(nodes, scoped.scopes) THEN "error" ELSE "ok",
     environment |-> [kind |-> "Environment", tree |-> tree, nodes |-> nodes,
                      scopes |-> scoped.scopes, byId |-> getNodeById(nodes)],
     nextId |-> tree.id + 1 + Len(nodes)]

\* link from the caches on (linker.ts 139-153), nodes being the nodes of the tree in
\* the order forEach visits them.
Cached(tree, nodes) == Validated(tree, nodes, assignScopes(nodes))

\* link from the copy on (linker.ts 137-153), tree being the environment copied.
Copied(tree) == Cached(tree, Flatten(tree, 0, 1))

\* The link of newPackages over base (NoEnv for none), uuid() handing out ids
\* from first on.
link(newPackages, base, first) ==
    Copied(transform([kind |-> "Environment", id |-> first,
                      members |-> ReduceMerge(newPackages,
                                      IF base = NoEnv THEN <<>> ELSE base.tree.members)],
                     first + 1))

----------------------------------------------------------------------------
(* The packages linked *)

FieldsIf(has) == IF has THEN <<Field("a")>> ELSE <<>>

\* The base library: wollok.lang (with a class a) and, if withLib, wollok.lib.
Wollok(langAHasField, withLib) ==
    Package("wollok", <<>>,
        <<Package("lang", <<>>, <<Class("a", <<>>, FieldsIf(langAHasField))>>)>>
        \o (IF withLib THEN <<Package("lib", <<>>, <<>>)>> ELSE <<>>))

\* A package q with a class a; it may import every member of p.
PackageQ(importsP) ==
    Package("q",
        IF importsP THEN <<Import(Reference(<<"p">>), TRUE)>> ELSE <<>>,
        <<Class("a", <<>>, <<>>)>>)

\* A package p with a class c that names b in its inheritance clause, and a
\* mixin b that names a in its own; c and b may each declare a field a.
PackageP(imports, cHasField, bHasField) ==
    Package("p", imports,
        <<Class("c", <<Reference(<<"b">>)>>, FieldsIf(cHasField)),
          Mixin("b", <<Reference(<<"a">>)>>, FieldsIf(bHasField))>>)

\* The imports p may declare.
ImportChoices ==
    {Import(Reference(<<"q", "a">>), FALSE),
     Import(Reference(<<"q">>), TRUE),
     Import(Reference(<<"b">>), TRUE),
     Import(Reference(<<"wollok", "lang", "a">>), TRUE)}

RECURSIVE ImportLists(_)
\* The lists of up to n different imports.
ImportLists(n) ==
    IF n = 0 THEN {<<>>}
    ELSE LET shorter == ImportLists(n - 1)
         IN shorter \cup {Append(l, i) : l \in shorter, i \in ImportChoices}

NoRepeat(l) == \A i, j \in 1..Len(l) : l[i] = l[j] => i = j

WollokChoices ==
    {<<>>, <<Wollok(FALSE, FALSE)>>} \cup {<<Wollok(f, TRUE)>> : f \in BOOLEAN}

QChoices == {<<>>} \cup {<<PackageQ(i)>> : i \in BOOLEAN}

PChoices ==
    {<<PackageP(l, cf, bf)>> :
        l \in {l \in ImportLists(MaxImports) : NoRepeat(l)},
        cf \in BOOLEAN, bf \in BOOLEAN}

\* The package lists given to a link that has no base environment.
Programs == {w \o q \o pp : w \in WollokChoices, q \in QChoices, pp \in PChoices}

\* A package p with a class c that has no supertype and one field a, whose
\* initial value is a reference to the given name.
ReloadedP(name) ==
    Package("p", <<>>, <<Class("c", <<>>, <<FieldWithValue("a", Reference(<<name>>))>>)>>)

\* The package lists of an incremental link: nothing, or a new version of the
\* class c of p.
Reloads == {<<>>, <<ReloadedP("a")>>, <<ReloadedP("q")>>}

----------------------------------------------------------------------------
(* The state machine *)

InitMerge ==
    /\ members = <<>>
    /\ previous = <<>>
    /\ isolated = NoEntity
    /\ merges = 0

InitLink ==
    /\ env = NoEnv
    /\ attempt = NoEnv
    /\ outcome = "none"
    /\ baseOf = NoEnv
    /\ nextId = 1
    /\ links = 0

Init == InitMerge /\ InitLink

\* One step of newPackages.reduce(mergePackage, members) (linker.ts 136).
Merge ==
    /\ merges < MaxMerges
    /\ \E e \in Entities :
        /\ members' = mergePackage(members, e)
        /\ previous' = members
        /\ isolated' = e
    /\ merges' = merges + 1
    /\ UNCHANGED linkVars

\* What a call of link leaves behind.
Returned(done, base) ==
    /\ outcome' = done.outcome
    /\ attempt' = done.environment
    /\ env' = IF done.outcome = "ok" THEN done.environment ELSE env
    /\ baseOf' = base
    /\ nextId' = done.nextId
    /\ links' = links + 1
    /\ UNCHANGED mergeVars

\* A call of link.
Linked(newPackages, base) == Returned(link(newPackages, base, nextId), base)

\* link(newPackages)
Link ==
    /\ links = 0
    /\ \E newPackages \in Programs \cup Reloads : Linked(newPackages, NoEnv)

\* link(newPackages, baseEnvironment), the base being the environment last returned
Relink ==
    /\ links > 0 /\ links < MaxLinks
    /\ env # NoEnv
    /\ \E newPackages \in Reloads : Linked(newPackages, env)

Next == Link \/ Relink

Spec == Init /\ [][Next]_vars

NextMerge == Merge

SpecMerge == Init /\ [][NextMerge]_vars

----------------------------------------------------------------------------
(* Properties of mergePackage, stated on the last call:                    *)
(*   members = mergePackage(previous, isolated)                            *)

\* The members of a list that carry the name n, in order.
Named(mems, n) == KeepFrom(mems, 1, {i \in 1..Len(mems) : mems[i].name = n})

NamesOf(mems) == {mems[i].name : i \in 1..Len(mems)}

IsPackage(e) == e.kind = "Package"

\* The last call merged a package into a list that already held a package of its name.
PackageCollision ==
    /\ isolated.kind = "Package"
    /\ FindPackage(previous, isolated.name) # 0

\* C1 (as claimed): when the new entity is a package and the list already holds a
\* package of the same name, the merged package stands at the position the
\* existing package had, and every other member stays where it was.
C1_ReplacedInPlace ==
    PackageCollision =>
        LET e == FindPackage(previous, isolated.name)
        IN /\ Len(members) = Len(previous)
           /\ IsPackage(members[e]) /\ members[e].name = isolated.name
           /\ \A i \in 1..Len(previous) : i # e => members[i] = previous[i]

\* C1 (amended): when the new entity is a package and the list already holds a
\* package of the same name, the merged package is the LAST member of the result
\* (the existing package is removed and the merged one appended), and every
\* other existing member keeps its relative order.
C1_MovedToEnd ==
    PackageCollision =>
        LET e == FindPackage(previous, isolated.name)
            n == Len(previous)
        IN /\ Len(members) = n
           /\ IsPackage(members[n]) /\ members[n].name = isolated.name
           /\ \A i \in 1..(e - 1) : members[i] = previous[i]
           /\ \A i \in (e + 1)..n : members[i - 1] = previous[i]

\* A package was merged into a list in which the package of its name was not last.
C1_Witness ==
    /\ PackageCollision
    /\ FindPackage(previous, isolated.name) < Len(previous)
    /\ members[Len(members)].members # <<>>

RECURSIVE DistinctNames(_)
\* Names pairwise distinct in the list and in the member list of every package in it.
DistinctNames(mems) ==
    /\ \A i, j \in 1..Len(mems) : mems[i].name = mems[j].name => i = j
    /\ \A i \in 1..Len(mems) : IsPackage(mems[i]) => DistinctNames(mems[i].members)

\* C2 (as claimed): folding entities with mergePackage from a list of distinct
\* names (here the empty list) keeps the names pairwise distinct, in the list and
\* in every package; a new non-package named n ends as the only entity named n.
C2_UniqueNames ==
    /\ DistinctNames(members)
    /\ (isolated.kind = "Class" => Named(members, isolated.name) = <<isolated>>)

RECURSIVE MergedAs(_, _, _)
\* res is old folded with new by the merge rule, told name by name: what only old
\* holds is kept, what only new holds is kept, a non-package in both is the new
\* one, and packages in both are merged the same way.
MergedAs(old, new, res) ==
    /\ NamesOf(res) = NamesOf(old) \cup NamesOf(new)
    /\ \A n \in NamesOf(res) :
        LET os == Named(old, n)
            ns == Named(new, n)
            rs == Named(res, n)
        IN /\ ns = <<>> => rs = os
           /\ os = <<>> => rs = ns
           /\ (/\ os # <<>> /\ ns # <<>>
               /\ \A i \in 1..Len(os) : ~IsPackage(os[i])
               /\ \A i \in 1..Len(ns) : ~IsPackage(ns[i]))
              => rs = <<ns[Len(ns)]>>
           /\ (FindPackage(os, n) # 0 /\ Len(ns) = 1 /\ IsPackage(ns[1]))
              => /\ FindPackage(rs, n) # 0
                 /\ Len(KeepFrom(rs, 1, {i \in 1..Len(rs) : IsPackage(rs[i])})) = 1
                 /\ MergedAs(os[FindPackage(os, n)].members, ns[1].members,
                             rs[FindPackage(rs, n)].members)

\* C3: merging a package P into a list that holds a package named P yields exactly
\* one package named P, whose members are the existing P's members folded with
\* the new P's members by the merge rule at every depth: a member only one of the
\* two holds is kept, a non-package in both is the new one.
C3_MergeRecursion ==
    PackageCollision =>
        LET e == FindPackage(previous, isolated.name)
            ps == KeepFrom(members, 1, {i \in 1..Len(members) :
                      IsPackage(members[i]) /\ members[i].name = isolated.name})
        IN /\ Len(ps) = 1
           /\ MergedAs(previous[e].members, isolated.members, ps[1].members)

\* Two packages of one name were merged, each holding a nested package named "x":
\* the existing nested package held a member the new one lacks, and the two
\* packages' members were merged two levels down.
C3_Witness ==
    /\ PackageCollision
    /\ LET old == previous[FindPackage(previous, isolated.name)]
       IN /\ FindPackage(old.members, "x") # 0
          /\ FindPackage(isolated.members, "x") # 0
          /\ LET oi == old.members[FindPackage(old.members, "x")]
                 ni == isolated.members[FindPackage(isolated.members, "x")]
             IN /\ oi.members # <<>> /\ ni.members # <<>>
                /\ NamesOf(oi.members) # NamesOf(ni.members)

----------------------------------------------------------------------------
(* Properties of a linked environment, stated on env, the environment the  *)
(* last successful link returned                                           *)

Modules(nodes) == {i \in 1..Len(nodes) : nodes[i].kind \in ModuleKinds}

Packages(nodes) == {i \in 1..Len(nodes) : nodes[i].kind = "Package"}

\* What scope s itself binds the name to, 0 for nothing.
Local(scopes, s, n) == scopes[s].contributions[n]

\* The first scope of a list that itself binds the name, 0 for none.
FirstBinding(scopes, list, n) ==
    LET hits == {k \in 1..Len(list) : Local(scopes, list[k], n) # 0}
    IN IF hits = {} THEN 0
       ELSE Local(scopes, list[CHOOSE k \in hits : \A j \in hits : k <= j], n)

\* C4: resolving a name from the scope of a module M returns M's own binding when
\* M binds the name; otherwise the binding of the first proper ancestor of M, in
\* hierarchy order, that binds it; and only when neither M nor an ancestor binds
\* it, what resolving it in M's lexical container returns.  The ancestors are the
\* proper part of M's hierarchy, most specific first.
C4_ResolutionPrecedence ==
    env # NoEnv =>
        \A m \in Modules(env.nodes) : \A n \in Segments :
            LET sc == env.scopes
                own == Local(sc, m, n)
                ancestors == sc[m].includedScopes
                inherited == FirstBinding(sc, ancestors, n)
                got == resolve(sc, m, n, TRUE)
                h == hierarchy(env.nodes, sc, m)
            IN /\ own # 0 => got = own
               /\ (own = 0 /\ inherited # 0) => got = inherited
               /\ (own = 0 /\ inherited = 0) => got = resolve(sc, sc[m].containerScope, n, TRUE)
               /\ h # <<Thrown>> => ancestors = Tail(h)

\* A module binds a name that its two ancestors bind as well, each to another
\* node, and that its container resolves to yet another node through an import.
C4_Witness ==
    /\ env # NoEnv
    /\ \E m \in Modules(env.nodes) :
        LET sc == env.scopes
            anc == sc[m].includedScopes
            outer == resolve(sc, sc[m].containerScope, "a", TRUE)
        IN /\ Len(anc) = 2
           /\ Local(sc, m, "a") # 0
           /\ Local(sc, anc[1], "a") # 0
           /\ Local(sc, anc[2], "a") # 0
           /\ outer # 0
           /\ outer # Local(sc, sc[m].containerScope, "a")
           /\ outer # Local(sc, 1, "a")
           /\ resolve(sc, m, "a", TRUE) = Local(sc, m, "a")

ImportsOf(nodes, p) == Ascending({k \in ChildrenOf(nodes, p) : nodes[k].kind = "Import"})

\* What an import refers to: its name resolved from the scope of the import.
Imported(e, k) ==
    resolveQualified(e.scopes, k, e.nodes[CHOOSE r \in ChildrenOf(e.nodes, k) : TRUE].ref, TRUE)

\* The simple imports of package p whose target is named n, in declaration order.
SimpleNamed(e, p, n) ==
    LET all == ImportsOf(e.nodes, p)
    IN KeepFrom(all, 1, {k \in 1..Len(all) :
           ~e.nodes[all[k]].isGeneric /\ e.nodes[Imported(e, all[k])].name = n})

\* The generic imports of package p whose target itself binds n, in declaration order.
GenericBinding(e, p, n) ==
    LET all == ImportsOf(e.nodes, p)
    IN KeepFrom(all, 1, {k \in 1..Len(all) :
           e.nodes[all[k]].isGeneric /\ Local(e.scopes, Imported(e, all[k]), n) # 0})

\* C5: from the scope of a package that does not itself declare n, n resolves to
\* the target of the simple import of n if there is one, wherever it is declared
\* among the imports; with no simple import of n, to what the first declared
\* generic import whose target binds n binds it to.
C5_ImportPrecedence ==
    env # NoEnv =>
        \A p \in Packages(env.nodes) : \A n \in Segments :
            LET simple == SimpleNamed(env, p, n)
                generic == GenericBinding(env, p, n)
                got == resolve(env.scopes, p, n, TRUE)
            IN Local(env.scopes, p, n) = 0 =>
                /\ simple # <<>> => got = Imported(env, simple[Len(simple)])
                /\ (simple = <<>> /\ generic # <<>>)
                   => got = Local(env.scopes, Imported(env, generic[1]), n)

\* A package declares a generic import that binds "a" before a simple import of
\* another node named "a", and "a" resolves to the simple import's target.
C5_Witness ==
    /\ env # NoEnv
    /\ \E p \in Packages(env.nodes) :
        LET simple == SimpleNamed(env, p, "a")
            generic == GenericBinding(env, p, "a")
        IN /\ Local(env.scopes, p, "a") = 0
           /\ simple # <<>> /\ generic # <<>>
           /\ generic[1] < simple[1]
           /\ Local(env.scopes, Imported(env, generic[1]), "a") # Imported(env, simple[1])
           /\ resolve(env.scopes, p, "a", TRUE) = Imported(env, simple[1])

RECURSIVE Consulted(_, _)
\* The scopes a lookup from scope s may read the bindings of, in the order it
\* reads them: s, the scopes s includes, then the same for the container of s.
Consulted(scopes, s) ==
    IF s = 0 THEN <<>>
    ELSE <<s>> \o scopes[s].includedScopes \o Consulted(scopes, scopes[s].containerScope)

IncludedBy(scopes, s) == {scopes[s].includedScopes[k] : k \in 1..Len(scopes[s].includedScopes)}

\* C6: resolve(name) on a scope S reads, of each scope S includes, only that
\* scope's own bindings: the result is the binding of the first scope that binds
\* the name among S, the scopes S includes, and the same for each scope up the
\* container chain of S; a scope included only by an included scope is not read.
\* With allowLookup false only the scope's own bindings are read.
C6_OneLevelDeep ==
    env # NoEnv =>
        \A s \in 1..Len(env.scopes) : \A n \in Segments :
            /\ resolve(env.scopes, s, n, TRUE) = FirstBinding(env.scopes, Consulted(env.scopes, s), n)
            /\ resolve(env.scopes, s, n, FALSE) = Local(env.scopes, s, n)

\* Two packages include each other's scopes, and a lookup from a scope S does not
\* return what a scope that only an included scope of S includes binds the name to.
C6_Witness ==
    /\ env # NoEnv
    /\ LET sc == env.scopes
       IN /\ \E s, t \in 1..Len(sc) : s # t /\ t \in IncludedBy(sc, s) /\ s \in IncludedBy(sc, t)
          /\ \E s \in 1..Len(sc) : \E t \in IncludedBy(sc, s) : \E u \in IncludedBy(sc, t) :
                /\ ~InSeq(u, Consulted(sc, s))
                /\ Local(sc, u, "a") # 0
                /\ resolve(sc, s, "a", TRUE) # Local(sc, u, "a")
                /\ \A v \in 1..Len(sc) :
                      Local(sc, v, "a") = Local(sc, u, "a") => ~InSeq(v, Consulted(sc, s))

RECURSIVE QualifiedNames(_)
\* The qualified names of up to n segments.
QualifiedNames(n) ==
    IF n = 0 THEN {}
    ELSE LET shorter == QualifiedNames(n - 1)
         IN {<<x>> : x \in QualifiedSegments}
            \cup {Append(q, x) : q \in shorter, x \in QualifiedSegments}

\* The qualified names looked up.
LookedUp == QualifiedNames(MaxSegments)

\* The nodes whose scope a qualified lookup starts from: the environment
\* (linker.ts 94), the imports (linker.ts 104, 109) and the references outside
\* the imports (the scope of an import's reference is an empty scope contained
\* in the import's scope, itself empty, so a lookup from it is the import's).
LookupStarts(nodes) ==
    {i \in 1..Len(nodes) :
        \/ nodes[i].kind \in {"Environment", "Import"}
        \/ nodes[i].kind = "Reference" /\ nodes[nodes[i].parent].kind # "Import"}

RECURSIVE Walk(_, _, _)
\* The later segments of a qualified name, each looked up among the bindings of
\* the scope of the node found for the segment before it.
Walk(scopes, node, rest) ==
    IF rest = <<>> THEN node
    ELSE IF Local(scopes, node, Head(rest)) = 0 THEN Thrown
    ELSE Walk(scopes, Local(scopes, node, Head(rest)), Tail(rest))

\* C7: resolveQualified resolves the first segment with resolve from the starting
\* scope and every later segment only among the bindings of the scope of the
\* node found for the segment before; it returns the node of the last segment,
\* and throws, never returning undefined, as soon as a segment is unbound.
C7_QualifiedResolution ==
    env # NoEnv =>
        \A s \in LookupStarts(env.nodes) : \A q \in LookedUp :
            LET got == resolveQualified(env.scopes, s, q, TRUE)
                first == resolve(env.scopes, s, Head(q), TRUE)
            IN /\ got # 0
               /\ got = IF first = 0 THEN Thrown ELSE Walk(env.scopes, first, Tail(q))

\* A name of three segments resolves through two scopes to a node, and a name
\* whose second segment is bound in the container of the first segment's scope,
\* but not in that scope itself, throws.
C7_Witness ==
    /\ env # NoEnv
    /\ LET sc == env.scopes
           lang == resolveQualified(sc, 1, <<"wollok", "lang">>, TRUE)
       IN /\ resolveQualified(sc, 1, <<"wollok", "lang", "a">>, TRUE) = Local(sc, lang, "a")
          /\ Local(sc, lang, "a") # 0
          /\ \E s \in LookupStarts(env.nodes) :
                /\ resolve(sc, s, "wollok", TRUE) # 0
                /\ resolve(sc, resolve(sc, s, "wollok", TRUE), "a", TRUE) # 0
                /\ resolveQualified(sc, s, <<"wollok", "a">>, TRUE) = Thrown

\* The global packages resolve from the scope of the environment.
GlobalsResolve(e) ==
    \A k \in 1..Len(GLOBAL_PACKAGES) :
        resolveQualified(e.scopes, 1, GLOBAL_PACKAGES[k], TRUE) # Thrown

\* C8 (as claimed): link returns an environment if and only if every Reference of
\* the merged tree resolves to a target from its own scope.
C8_IffReferencesResolve ==
    outcome # "none" =>
        (outcome = "ok" <=> Unlinked(attempt.nodes, attempt.scopes) = {})

\* C8 (amended): when link returns an environment, the global packages
\* wollok.lang and wollok.lib resolve from the environment's scope and every
\* Reference of the merged tree resolves to a target from its own scope; when a
\* Reference does not resolve, or a global package does not, link fails, and a
\* link that fails leaves the caller with no new environment.
C8_ReturnedOnlyIfResolved ==
    outcome # "none" =>
        /\ outcome = "ok" =>
              /\ GlobalsResolve(attempt)
              /\ Unlinked(attempt.nodes, attempt.scopes) = {}
              /\ env = attempt
        /\ outcome = "error" => env = baseOf

\* A link over a base environment failed because a Reference outside the import
\* and supertype clauses does not resolve, the global packages being there.
C8_Witness ==
    /\ outcome = "error"
    /\ baseOf # NoEnv
    /\ GlobalsResolve(attempt)
    /\ \E r \in Unlinked(attempt.nodes, attempt.scopes) :
          attempt.nodes[attempt.nodes[r].parent].kind = "Field"

IdsOf(e) == {e.nodes[i].id : i \in 1..Len(e.nodes)}

\* C9: in every environment link returns, the ids of the nodes, the environment
\* included, are pairwise different, the id index leads from each node's id to
\* that node, and no node has an id that a node of the base environment has.
C9_IdentityUniqueness ==
    outcome = "ok" =>
        /\ \A i, j \in 1..Len(env.nodes) : env.nodes[i].id = env.nodes[j].id => i = j
        /\ \A i \in 1..Len(env.nodes) : env.byId[env.nodes[i].id] = i
        /\ baseOf # NoEnv => IdsOf(env) \cap IdsOf(baseOf) = {}

\* A link over a base environment returned an environment that holds the nodes
\* of the base and new ones.
C9_Witness ==
    /\ outcome = "ok"
    /\ baseOf # NoEnv
    /\ Len(env.nodes) > Len(baseOf.nodes)

\* The nodes registered in the scope s itself.
BoundIn(scopes, s) == {scopes[s].contributions[n] : n \in Segments} \ {0}

\* C10 (as claimed): the scope of a Reference whose parent is a Class or a Mixin
\* is contained in the scope of the parent's parent, and resolving the reference
\* never returns a binding registered in the class or mixin's own scope; the
\* scope of every other node is contained in the scope of its parent.
C10_SupertypeScope ==
    env # NoEnv =>
        \A i \in 1..Len(env.nodes) :
            LET parent == env.nodes[i].parent
            IN IF env.nodes[i].kind = "Reference" /\ env.nodes[parent].kind \in {"Class", "Mixin"}
               THEN /\ env.scopes[i].containerScope = env.nodes[parent].parent
                    /\ resolveQualified(env.scopes, i, env.nodes[i].ref, TRUE)
                          \notin BoundIn(env.scopes, parent)
               ELSE env.scopes[i].containerScope = parent

====
